---- MODULE Spec2Model ----
(***************************************************************************)
(* A state-machine model of src/app.py, the Streamlit career-advisor app.  *)
(*                                                                         *)
(* One step of the model is one run of the script: Streamlit re-runs the   *)
(* whole script, top to bottom, on every user interaction (a button press, *)
(* a slider move, a chat submission, a change of the sidebar choice), and  *)
(* the only state that survives from one run to the next is                *)
(* st.session_state: the four fields the script initialises (lines 44-54)  *)
(* and the values of its keyed widgets (the sliders of lines 193-198).     *)
(*                                                                         *)
(* Text is modelled as a sequence of tokens; a token is a character or a   *)
(* literal the patterns of parse_special_commands look for.  A dict is a   *)
(* function whose DOMAIN is its key set; a dict whose iteration order      *)
(* matters (personal_skills) is a sequence of entries with distinct keys.  *)
(***************************************************************************)
EXTENDS Integers, Sequences, FiniteSets, TLC

VARIABLES
    user_profile,     \* st.session_state.user_profile   (line 45)
    personal_skills,  \* st.session_state.personal_skills (line 48), in insertion order
    chat_history,     \* st.session_state.chat_history    (line 51)
    context,          \* st.session_state.context         (line 54)
    widget_state,     \* st.session_state["current_<skill>"], ["target_<skill>"]
    hash_order,       \* the process's iteration order of a set of strings
    page,             \* what the last run executed: "intake" or a menu entry
    event,            \* the user's interaction that caused the last run
    raised,           \* the last run ended in an uncaught exception
    mentor_requests,  \* the prompts get_ai_mentor_response sent during the last run
    caught,           \* the exception line 236 caught during the last run, <<>> if none
    fetched,          \* what each fetch_dynamic_skills call of the last run returned
    skills,           \* the list get_skills_for_user returned during the last run
    gap_df,           \* the table the latest run of show_dashboard displayed
    news_items,       \* the list show_industry_news displayed during the last run
    runs              \* number of script runs so far

vars == <<user_profile, personal_skills, chat_history, context, widget_state,
          hash_order, page, event, raised, mentor_requests, caught, fetched,
          skills, gap_df, news_items, runs>>

session_state == <<user_profile, personal_skills, chat_history, context>>

(***************************************************************************)
(* Bounds of the model.                                                    *)
(***************************************************************************)
MaxInputLen  == 3   \* tokens in one chat input
MaxQuestions == 1   \* chat submissions in a chat-only session

(***************************************************************************)
(* Dicts.                                                                  *)
(***************************************************************************)
EmptyDict == [k \in {} |-> <<>>]

DictSet(d, k, v) == [x \in (DOMAIN d) \cup {k} |-> IF x = k THEN v ELSE d[x]]

(***************************************************************************)
(* Text.  "Prep Level:" is the directive in another letter case, "\n" a    *)
(* line break, " " a blank and "x" any other character.                    *)
(***************************************************************************)
Tokens == {"timeline:", "Prep Level:", " ", "\n", "x"}

\* str.lower(), as re.IGNORECASE compares
lower(tok) == IF tok = "Prep Level:" THEN "prep level:" ELSE tok

\* the class \s of the patterns, and what str.strip() removes
IsSpace(tok) == tok \in {" ", "\n"}

RECURSIVE SeqsUpTo(_, _)
SeqsUpTo(S, n) ==
    IF n = 0 THEN {<<>>}
    ELSE LET shorter == SeqsUpTo(S, n - 1)
         IN  shorter \cup {Append(s, t) : s \in shorter, t \in S}

Range(s) == {s[n] : n \in DOMAIN s}

\* least i in from..Len(s)+1 that is past the end or has s[i] in S
RECURSIVE FirstFrom(_, _, _)
FirstFrom(s, from, S) ==
    IF from > Len(s) \/ s[from] \in S THEN from ELSE FirstFrom(s, from + 1, S)

NonSpaces(s) == {t \in Range(s) : ~IsSpace(t)}

\* str.strip(chars): the leading and trailing characters in chars removed
RECURSIVE rstrip(_, _)
rstrip(s, chars) ==
    IF s # <<>> /\ s[Len(s)] \in chars
    THEN rstrip(SubSeq(s, 1, Len(s) - 1), chars)
    ELSE s

strip_chars(s, chars) ==
    LET r == rstrip(s, chars)
    IN  SubSeq(r, FirstFrom(r, 1, Range(r) \ chars), Len(r))

\* str.strip(): leading and trailing whitespace removed
strip(s) == strip_chars(s, {t \in Range(s) : IsSpace(t)})

\* s occurs in t as a contiguous run
Contains(t, s) ==
    \E i \in 0..(Len(t) - Len(s)) : SubSeq(t, i + 1, i + Len(s)) = s

(***************************************************************************)
(* Command Parser (lines 143-156).                                         *)
(***************************************************************************)
\* command_patterns, in the dict's insertion order; each pattern is
\* <literal>\s*(.*)
command_patterns ==
    << [key |-> "timeline",   literal |-> "timeline:",   human |-> "Timeline"],
       [key |-> "prep_level", literal |-> "prep level:", human |-> "Prep level"] >>

\* re.search(pattern, user_input, flags=re.IGNORECASE): the position of the
\* leftmost match of the literal, 0 when there is none
re_search(literal, user_input) ==
    LET i == FirstFrom(user_input, 1,
                       {t \in Range(user_input) : lower(t) = literal})
    IN  IF i > Len(user_input) THEN 0 ELSE i

\* match.group(1): \s* takes the whitespace after the literal (line breaks
\* included), (.*) the rest of that line
group1(user_input, i) ==
    LET j == FirstFrom(user_input, i + 1, NonSpaces(user_input))
        k == FirstFrom(user_input, j, {"\n"})
    IN  SubSeq(user_input, j, k - 1)

value_missing(pat) == <<pat.human, " value missing. Please provide a value.">>

recorded(pat, value) == <<pat.human, " recorded: ">> \o value \o <<".">>

\* the loop of lines 148-156 from pattern n on; the result is the returned
\* response (none: the function returned None) and the context it leaves
RECURSIVE parse_from(_, _, _)

\* parse_from without the strip() of line 151
parse_from_unstripped(n, user_input, ctx) ==
    IF n > Len(command_patterns)
    THEN [none |-> TRUE, text |-> <<>>, context |-> ctx]
    ELSE LET pat == command_patterns[n]
             i   == re_search(pat.literal, user_input)
         IN  IF i # 0
             THEN LET value == group1(user_input, i)
                  IN  IF value = <<>>
                      THEN [none |-> FALSE, text |-> value_missing(pat),
                            context |-> ctx]
                      ELSE [none |-> FALSE, text |-> recorded(pat, value),
                            context |-> DictSet(ctx, pat.key, value)]
             ELSE parse_from(n + 1, user_input, ctx)

\* parse_from going on to the next pattern when a value is missing
parse_from_continue(n, user_input, ctx) ==
    IF n > Len(command_patterns)
    THEN [none |-> TRUE, text |-> <<>>, context |-> ctx]
    ELSE LET pat == command_patterns[n]
             i   == re_search(pat.literal, user_input)
             value == strip(group1(user_input, i))
         IN  IF i # 0 /\ value # <<>>
             THEN [none |-> FALSE, text |-> recorded(pat, value),
                   context |-> DictSet(ctx, pat.key, value)]
             ELSE LET rest == parse_from(n + 1, user_input, ctx)
                  IN  IF i # 0 /\ rest.none
                      THEN [none |-> FALSE, text |-> value_missing(pat),
                            context |-> ctx]
                      ELSE rest

parse_from(n, user_input, ctx) ==
    IF n > Len(command_patterns)
    THEN [none |-> TRUE, text |-> <<>>, context |-> ctx]
    ELSE LET pat == command_patterns[n]
             i   == re_search(pat.literal, user_input)
         IN  IF i # 0
             THEN LET value == strip(group1(user_input, i))
                  IN  IF value = <<>>
                      THEN [none |-> FALSE, text |-> value_missing(pat),
                            context |-> ctx]
                      ELSE [none |-> FALSE, text |-> recorded(pat, value),
                            context |-> DictSet(ctx, pat.key, value)]
             ELSE parse_from(n + 1, user_input, ctx)

parse_special_commands(user_input, ctx) == parse_from(1, user_input, ctx)

(***************************************************************************)
(* Mentor Responder (lines 124-141).  The completion service either        *)
(* answers or raises; what it answers is not the program's to decide.      *)
(***************************************************************************)
Completions ==
    { [ok |-> TRUE,  text |-> <<"Build a portfolio.">>],
      [ok |-> FALSE, text |-> <<"Connection error.">>] }

\* the prompt of lines 128-131
prompt_messages(profile, ctx, user_input) ==
    [profile |-> profile, context |-> ctx, question |-> user_input]

\* the result: the completion's text, or the exception the call raised
get_ai_mentor_response(completion) ==
    [raised |-> ~completion.ok, text |-> completion.text]

\* line 237
error_message(e) == <<"Sorry, there was an error: ">> \o e

(***************************************************************************)
(* Static skill tables (lines 59-73).  A skill name is a text, here of one *)
(* token.                                                                  *)
(***************************************************************************)
\* dict.get(k, default)
DictGet(d, k, default) == IF k \in DOMAIN d THEN d[k] ELSE default

profession_keys ==
    <<"Data Analyst", "Software Engineer", "Project Manager", "Student">>

skills_by_profession ==
    [p \in Range(profession_keys) |->
        CASE p = "Data Analyst" ->
               << <<"Python">>, <<"SQL">>, <<"Data Visualization">>, <<"Statistics">> >>
          [] p = "Software Engineer" ->
               << <<"Python">>, <<"Algorithms">>, <<"Data Structures">>, <<"System Design">> >>
          [] p = "Project Manager" ->
               << <<"Leadership">>, <<"Project Planning">>, <<"Risk Management">>, <<"Agile">> >>
          [] p = "Student" ->
               << <<"Time Management">>, <<"Research">>, <<"Presentation Skills">> >>]

industry_keys ==
    <<"IT", "Healthcare", "Finance", "Education", "Engineering", "Others">>

skills_by_industry ==
    [i \in Range(industry_keys) |->
        CASE i = "IT" ->
               << <<"Cloud Computing">>, <<"Machine Learning">>, <<"Python">> >>
          [] i = "Healthcare" ->
               << <<"Medical Terminology">>, <<"Patient Care">>, <<"Data Compliance">> >>
          [] i = "Finance" ->
               << <<"Financial Modeling">>, <<"Risk Analysis">>, <<"Excel">> >>
          [] i = "Education" ->
               << <<"Curriculum Planning">>, <<"Teaching Skills">>, <<"Assessment Design">> >>
          [] i = "Engineering" ->
               << <<"CAD">>, <<"Mathematics">>, <<"Project Management">> >>
          [] i = "Others" -> << >>]

(***************************************************************************)
(* Skill Aggregator (lines 78-97).                                         *)
(***************************************************************************)
\* What the completion service does on a skill-suggestion request: it
\* raises, or answers a text, given here as content.split("\n").
SkillCompletions ==
    { [ok |-> FALSE, lines |-> << >>],
      [ok |-> TRUE,  lines |-> << <<>> >>],
      [ok |-> TRUE,  lines |-> << <<"-", " ", "Python">>, <<" ">>, <<"Prompt Engineering">> >>],
      [ok |-> TRUE,  lines |-> << <<"Research">>, <<"-">>, <<"Research", " ">> >>] }

\* the characters of the strip of line 89
bullet_chars == {"-", "â", "€", "¢", " "}

\* line 89: [s.strip("-â€¢ ") for s in content.split("\n") if s.strip()]
RECURSIVE parse_lines(_)
parse_lines(lines) ==
    IF lines = <<>> THEN <<>>
    ELSE LET s == Head(lines)
         IN  (IF strip(s) # <<>> THEN <<strip_chars(s, bullet_chars)>> ELSE <<>>)
             \o parse_lines(Tail(lines))

\* the result of fetch_dynamic_skills: the exception, or the parsed list
fetch_dynamic_skills(completion) ==
    [raised |-> ~completion.ok,
     list   |-> IF completion.ok THEN parse_lines(completion.lines) ELSE <<>>]

\* lines 93-95
RECURSIVE extend_industries(_)
extend_industries(career_interests) ==
    IF career_interests = <<>> THEN <<>>
    ELSE DictGet(skills_by_industry, Head(career_interests), <<>>)
         \o extend_industries(Tail(career_interests))

\* list(set(xs)): the elements of xs, each once, in the order the process
\* iterates a set of strings in
list_of_set(xs, order) ==
    LET members == Range(xs)
        In(x)   == x \in members
    IN  SelectSeq(order, In)

\* get_skills_for_user without the set() of line 97
get_skills_for_user_concat(profile, ai_suggested, order) ==
    DictGet(skills_by_profession, DictGet(profile, "profession", ""), <<>>)
    \o extend_industries(DictGet(profile, "career_interests", <<>>))
    \o ai_suggested

\* lines 91-97, given what fetch_dynamic_skills returned
get_skills_for_user(profile, ai_suggested, order) ==
    LET prof_skills     == DictGet(skills_by_profession,
                                   DictGet(profile, "profession", ""), <<>>)
        industry_skills == extend_industries(
                               DictGet(profile, "career_interests", <<>>))
    IN  list_of_set(prof_skills \o industry_skills \o ai_suggested, order)

(***************************************************************************)
(* Gap Calculator (lines 99-105).  skills_dict is a sequence of            *)
(* [skill, levels] items, in the dict's iteration order.                   *)
(***************************************************************************)
\* skill_gap_analysis_df with the gap clamped at 0
skill_gap_analysis_df_clamped(skills_dict) ==
    [n \in 1..Len(skills_dict) |->
        LET current == DictGet(skills_dict[n].levels, "current", 0)
            target  == DictGet(skills_dict[n].levels, "target", 0)
        IN  [Skill |-> skills_dict[n].skill, Current |-> current,
             Target |-> target,
             Gap |-> IF target > current THEN target - current ELSE 0]]

skill_gap_analysis_df(skills_dict) ==
    [n \in 1..Len(skills_dict) |->
        LET current == DictGet(skills_dict[n].levels, "current", 0)
            target  == DictGet(skills_dict[n].levels, "target", 0)
        IN  [Skill |-> skills_dict[n].skill, Current |-> current,
             Target |-> target, Gap |-> target - current]]

(***************************************************************************)
(* Skill-rating form (lines 182-200).                                      *)
(***************************************************************************)
\* the range of the sliders of lines 193 and 196
SliderMin == 0
SliderMax == 5

Min(a, b) == IF a <= b THEN a ELSE b
Max(a, b) == IF a >= b THEN a ELSE b

\* position of skill's item in the dict, 0 when it has none
ItemIndex(items, skill) ==
    LET hits == {n \in DOMAIN items : items[n].skill = skill}
    IN  IF hits = {} THEN 0 ELSE CHOOSE n \in hits : TRUE

\* personal_skills.get(skill, {})
ItemGet(items, skill) ==
    LET n == ItemIndex(items, skill)
    IN  IF n = 0 THEN EmptyDict ELSE items[n].levels

\* ItemSet adding an item at every write
ItemSet_append(items, skill, levels) ==
    Append(items, [skill |-> skill, levels |-> levels])

\* personal_skills[skill] = levels: in place for a key the dict has, at the
\* end for a new one
ItemSet(items, skill, levels) ==
    LET n == ItemIndex(items, skill)
    IN  IF n = 0
        THEN Append(items, [skill |-> skill, levels |-> levels])
        ELSE [items EXCEPT ![n].levels = levels]

\* st.slider(label, min_value, max_value, value=value, key=key), called at
\* lines 193 and 196.  The slider does not reject a default value outside
\* min_value..max_value: it widens its track to hold it.  It returns the
\* value the user left the widget at if the widget of this key was on the
\* page of the previous run with the same arguments, and the default value
\* if not (a widget whose arguments changed is a new widget).
slider(ws, key, min_value, max_value, value) ==
    LET same == /\ key \in DOMAIN ws
                /\ ws[key].min_value = min_value
                /\ ws[key].max_value = max_value
                /\ ws[key].value = value
        val  == IF same THEN ws[key].val ELSE value
    IN  [val |-> val,
         widget |-> [min_value |-> min_value, max_value |-> max_value,
                     value |-> value, val |-> val]]

\* the track of a widget on the page: its bounds, widened to its default
Track(w) == Min(w.min_value, w.value)..Max(w.max_value, w.value)

\* the loop of lines 188-199 from skill n on.  ws: the widgets as the user
\* left them; rendered: the widgets this run has put on the page so far.
RECURSIVE rating_loop(_, _, _, _, _)
rating_loop(n, skill_list, items, ws, rendered) ==
    IF n > Len(skill_list)
    THEN [personal_skills |-> items, widgets |-> rendered]
    ELSE LET skill  == skill_list[n]
             stored == ItemGet(items, skill)
             ckey   == <<"current_">> \o skill
             tkey   == <<"target_">> \o skill
             curr   == slider(ws, ckey, SliderMin, SliderMax,
                              DictGet(stored, "current", 0))
             targ   == slider(ws, tkey, curr.val, SliderMax,
                              DictGet(stored, "target", curr.val))
         IN  rating_loop(n + 1, skill_list,
                         ItemSet(items, skill,
                                 [current |-> curr.val, target |-> targ.val]),
                         ws,
                         DictSet(DictSet(rendered, ckey, curr.widget),
                                 tkey, targ.widget))

\* lines 182-200, given what fetch_dynamic_skills returned to
\* get_skills_for_user; an exception of that call ends the run before any
\* slider is on the page
skill_rating_form(profile, items, ws, ai, order) ==
    IF ai.raised
    THEN [personal_skills |-> items, widgets |-> EmptyDict, raised |-> TRUE,
          skills |-> <<>>, fetched |-> <<ai>>]
    ELSE LET skill_list == get_skills_for_user(profile, ai.list, order)
             done == rating_loop(1, skill_list, items, ws, EmptyDict)
         IN  [personal_skills |-> done.personal_skills, widgets |-> done.widgets,
              raised |-> FALSE, skills |-> skill_list, fetched |-> <<ai>>]

\* lines 218-221: the form, then a second request to the completion service
show_skills_courses(profile, items, ws, completion1, completion2, order) ==
    LET form    == skill_rating_form(profile, items, ws,
                                     fetch_dynamic_skills(completion1), order)
        courses == fetch_dynamic_skills(completion2)
    IN  IF form.raised THEN form
        ELSE [form EXCEPT !.raised = courses.raised,
                          !.fetched = Append(form.fetched, courses)]

(***************************************************************************)
(* Profile form (lines 161-180).                                           *)
(***************************************************************************)
\* user_profile_form rejecting only a form with both fields empty
user_profile_form_either(profile, pressed, form) ==
    IF pressed /\ ~(form.name = "" /\ form.career_goal = "")
    THEN [name             |-> form.name,
          profession       |-> form.profession,
          experience_years |-> form.experience,
          career_goals     |-> form.career_goal,
          career_interests |-> form.industries]
    ELSE profile

\* lines 169-180: what st.session_state.user_profile is after the form ran
user_profile_form(profile, pressed, form) ==
    IF pressed /\ ~(form.name = "" \/ form.career_goal = "")
    THEN [name             |-> form.name,
          profession       |-> form.profession,
          experience_years |-> form.experience,
          career_goals     |-> form.career_goal,
          career_interests |-> form.industries]
    ELSE profile

(***************************************************************************)
(* Dashboard (lines 202-216).                                              *)
(***************************************************************************)
\* the table displayed (none when line 211 returns), or the KeyError of
\* lines 204-207
show_dashboard(profile, items) ==
    IF {"name", "profession", "experience_years", "career_goals"}
           \subseteq DOMAIN profile
    THEN [raised |-> FALSE,
          gap_df |-> IF items = <<>> THEN <<>> ELSE skill_gap_analysis_df(items)]
    ELSE [raised |-> TRUE, gap_df |-> <<>>]

(***************************************************************************)
(* Mentor chat (lines 223-239).                                            *)
(***************************************************************************)
\* show_mentor_chat without the try of lines 234-237: the exception ends the
\* run before line 239
show_mentor_chat_unguarded(history, ctx, profile, user_input, completion) ==
    IF user_input = <<>>
    THEN [chat_history |-> history, context |-> ctx, requests |-> <<>>,
          caught |-> <<>>]
    ELSE LET asked    == Append(history, [role |-> "user", content |-> user_input])
             parsed   == parse_special_commands(user_input, ctx)
             answer   == get_ai_mentor_response(completion)
             response == IF parsed.none THEN answer.text ELSE parsed.text
             failed   == parsed.none /\ answer.raised
         IN  [chat_history |-> IF failed THEN asked
                               ELSE Append(asked, [role |-> "assistant",
                                                   content |-> response]),
              context      |-> parsed.context,
              requests     |-> IF parsed.none
                               THEN <<prompt_messages(profile, parsed.context,
                                                      user_input)>>
                               ELSE <<>>,
              caught       |-> IF failed THEN answer.text ELSE <<>>]

\* show_mentor_chat keeping the question it forwards in the context
show_mentor_chat_remember(history, ctx, profile, user_input, completion) ==
    IF user_input = <<>>
    THEN [chat_history |-> history, context |-> ctx, requests |-> <<>>,
          caught |-> <<>>]
    ELSE LET asked    == Append(history, [role |-> "user", content |-> user_input])
             parsed   == parse_special_commands(user_input, ctx)
             answer   == get_ai_mentor_response(completion)
             response == IF parsed.none
                         THEN IF answer.raised THEN error_message(answer.text)
                                               ELSE answer.text
                         ELSE parsed.text
         IN  [chat_history |-> Append(asked, [role |-> "assistant",
                                              content |-> response]),
              context      |-> IF parsed.none
                               THEN DictSet(parsed.context, "last_question",
                                            user_input)
                               ELSE parsed.context,
              requests     |-> IF parsed.none
                               THEN <<prompt_messages(profile, parsed.context,
                                                      user_input)>>
                               ELSE <<>>,
              caught       |-> IF parsed.none /\ answer.raised
                               THEN answer.text ELSE <<>>]

\* user_input = <<>>: st.chat_input returned None, nothing was submitted.
\* caught: the exception of line 236, <<>> when there was none.
show_mentor_chat(history, ctx, profile, user_input, completion) ==
    IF user_input = <<>>
    THEN [chat_history |-> history, context |-> ctx, requests |-> <<>>,
          caught |-> <<>>]
    ELSE LET asked    == Append(history, [role |-> "user", content |-> user_input])
             parsed   == parse_special_commands(user_input, ctx)
             answer   == get_ai_mentor_response(completion)
             response == IF parsed.none
                         THEN IF answer.raised THEN error_message(answer.text)
                                               ELSE answer.text
                         ELSE parsed.text
         IN  [chat_history |-> Append(asked, [role |-> "assistant",
                                              content |-> response]),
              context      |-> parsed.context,
              requests     |-> IF parsed.none
                               THEN <<prompt_messages(profile, parsed.context,
                                                      user_input)>>
                               ELSE <<>>,
              caught       |-> IF parsed.none /\ answer.raised
                               THEN answer.text ELSE <<>>]

(***************************************************************************)
(* News (lines 110-119, 241-250).                                          *)
(***************************************************************************)
\* What the news service does: the request raises, or answers articles
NewsAnswers ==
    { [ok |-> FALSE, articles |-> <<>>],
      [ok |-> TRUE,  articles |-> <<>>],
      [ok |-> TRUE,  articles |-> <<[title |-> "AI hiring", url |-> "https://n/1"]>>] }

fetch_industry_news(answer) ==
    IF answer.ok
    THEN [n \in 1..Len(answer.articles) |->
            <<answer.articles[n].title, answer.articles[n].url>>]
    ELSE <<>>

show_industry_news(industry, answer) ==
    IF industry # "" THEN fetch_industry_news(answer) ELSE <<>>

(***************************************************************************)
(* The script (lines 255-273): one action per branch of a run.             *)
(***************************************************************************)
menu == <<"Dashboard", "Skills & Courses", "Mentorship Chatbot", "Industry News">>

\* the gate testing a field of the profile for truth
profile_missing_falsy(profile) ==
    IF DOMAIN profile = {} THEN TRUE ELSE profile.experience_years = 0

\* line 259: not st.session_state.get("user_profile")
profile_missing(profile) == DOMAIN profile = {}

\* lines 259-261: the intake form, then st.stop().  The button can only be
\* pressed on a page that shows it.
IntakeRun(Forms) ==
    /\ profile_missing(user_profile)
    /\ \E pressed \in BOOLEAN, form \in Forms :
          /\ pressed => page = "intake"
          /\ user_profile' = user_profile_form(user_profile, pressed, form)
          /\ event' = IF pressed THEN [kind |-> "save", form |-> form]
                                 ELSE [kind |-> "rerun"]
    /\ page' = "intake"
    /\ raised' = FALSE
    /\ widget_state' = EmptyDict
    /\ mentor_requests' = <<>>
    /\ caught' = <<>>
    /\ fetched' = <<>>
    /\ skills' = <<>>
    /\ news_items' = <<>>
    /\ UNCHANGED <<personal_skills, chat_history, context, hash_order, gap_df>>

\* the sidebar offers the other pages once a run has shown it (line 264);
\* its first choice is menu[1]
MayChoose(choice) == choice = menu[1] \/ page \in Range(menu)

DashboardRun ==
    /\ ~profile_missing(user_profile)
    /\ MayChoose("Dashboard")
    /\ LET out == show_dashboard(user_profile, personal_skills)
       IN  /\ gap_df' = out.gap_df
           /\ raised' = out.raised
    /\ page' = "Dashboard"
    /\ event' = [kind |-> "page"]
    /\ widget_state' = EmptyDict
    /\ mentor_requests' = <<>>
    /\ caught' = <<>>
    /\ fetched' = <<>>
    /\ skills' = <<>>
    /\ news_items' = <<>>
    /\ UNCHANGED <<user_profile, personal_skills, chat_history, context, hash_order>>

\* the slider moves a user can make on the page of the previous run, to the
\* levels in Levels, as the widgets they leave; a user who only chose the
\* page, or re-ran it, moves none
SliderMoves(Levels) ==
    {widget_state} \cup
    IF page = "Skills & Courses"
    THEN UNION {{[widget_state EXCEPT ![k].val = v] :
                    v \in Levels \cap Track(widget_state[k])} :
                k \in DOMAIN widget_state}
    ELSE {}

SkillsRun(Services, Courses, Levels) ==
    /\ ~profile_missing(user_profile)
    /\ MayChoose("Skills & Courses")
    /\ \E ws \in SliderMoves(Levels), c1 \in Services, c2 \in Courses :
          LET out == show_skills_courses(user_profile, personal_skills, ws,
                                         c1, c2, hash_order)
          IN  /\ personal_skills' = out.personal_skills
              /\ widget_state' = out.widgets
              /\ raised' = out.raised
              /\ skills' = out.skills
              /\ fetched' = out.fetched
              /\ event' = [kind |-> IF ws = widget_state THEN "page" ELSE "slider"]
    /\ page' = "Skills & Courses"
    /\ mentor_requests' = <<>>
    /\ caught' = <<>>
    /\ news_items' = <<>>
    /\ UNCHANGED <<user_profile, chat_history, context, hash_order, gap_df>>

\* a question can only be submitted on a page that shows the chat input
ChatRun(Inputs) ==
    /\ ~profile_missing(user_profile)
    /\ MayChoose("Mentorship Chatbot")
    /\ \E user_input \in Inputs \cup {<<>>}, completion \in Completions :
          /\ user_input # <<>> => page = "Mentorship Chatbot"
          /\ LET out == show_mentor_chat(chat_history, context, user_profile,
                                         user_input, completion)
             IN  /\ chat_history' = out.chat_history
                 /\ context' = out.context
                 /\ mentor_requests' = out.requests
                 /\ caught' = out.caught
          /\ event' = IF user_input = <<>> THEN [kind |-> "page"]
                      ELSE [kind |-> "ask", user_input |-> user_input]
    /\ page' = "Mentorship Chatbot"
    /\ raised' = FALSE
    /\ widget_state' = EmptyDict
    /\ fetched' = <<>>
    /\ skills' = <<>>
    /\ news_items' = <<>>
    /\ UNCHANGED <<user_profile, personal_skills, hash_order, gap_df>>

NewsRun ==
    /\ ~profile_missing(user_profile)
    /\ MayChoose("Industry News")
    /\ \E industry \in {"", "Data Science"}, answer \in NewsAnswers :
          news_items' = show_industry_news(industry, answer)
    /\ page' = "Industry News"
    /\ event' = [kind |-> "page"]
    /\ raised' = FALSE
    /\ widget_state' = EmptyDict
    /\ mentor_requests' = <<>>
    /\ caught' = <<>>
    /\ fetched' = <<>>
    /\ skills' = <<>>
    /\ UNCHANGED <<user_profile, personal_skills, chat_history, context,
                   hash_order, gap_df>>

(***************************************************************************)
(* The process's set order: an enumeration of every skill name.            *)
(***************************************************************************)
RECURSIVE Dedup(_)
Dedup(xs) ==
    IF xs = <<>> THEN <<>>
    ELSE LET front == Dedup(SubSeq(xs, 1, Len(xs) - 1))
             x     == xs[Len(xs)]
         IN  IF x \in Range(front) THEN front ELSE Append(front, x)

RECURSIVE Flatten(_)
Flatten(ss) == IF ss = <<>> THEN <<>> ELSE Head(ss) \o Flatten(Tail(ss))

Reverse(xs) == [n \in 1..Len(xs) |-> xs[Len(xs) + 1 - n]]

SetToSeq(S) ==
    CHOOSE f \in [1..Cardinality(S) -> S] : \A x \in S : \E n \in DOMAIN f : f[n] = x

skill_universe ==
    Dedup(  Flatten([n \in 1..Len(profession_keys) |->
                        skills_by_profession[profession_keys[n]]])
         \o Flatten([n \in 1..Len(industry_keys) |->
                        skills_by_industry[industry_keys[n]]])
         \o Flatten([n \in 1..Cardinality(SkillCompletions) |->
                        fetch_dynamic_skills(SetToSeq(SkillCompletions)[n]).list]))

HashOrders == {skill_universe, Reverse(skill_universe)}

(***************************************************************************)
(* The session.                                                            *)
(***************************************************************************)
MaxRuns == 5   \* script runs after the one that opened the session

SessionForms ==
    [name : {"", "Ana"}, profession : {"Student"}, experience : {0},
     career_goal : {"", "Lead a team"}, industries : {<<>>, <<"Others">>}]

SessionInputs ==
    { <<"timeline:", " ", "x">>, <<"Prep Level:">>, <<"x">> }

SessionServices ==
    { [ok |-> FALSE, lines |-> << >>],
      [ok |-> TRUE,  lines |-> << <<"-", " ", "Research">>, <<" ">>,
                                  <<"Prompt Engineering">> >>] }

\* what the service does on the request of line 221
CourseServices ==
    { [ok |-> FALSE, lines |-> << >>],
      [ok |-> TRUE,  lines |-> << <<"Negotiation">> >>] }

SessionLevels == {SliderMin, 3, SliderMax}

\* the session after its first run: the four fields initialised (lines
\* 44-54) and the intake form on the page
Init ==
    /\ user_profile = EmptyDict
    /\ personal_skills = <<>>
    /\ chat_history = <<>>
    /\ context = EmptyDict
    /\ widget_state = EmptyDict
    /\ hash_order \in HashOrders
    /\ page = "intake"
    /\ event = [kind |-> "open"]
    /\ raised = FALSE
    /\ mentor_requests = <<>>
    /\ caught = <<>>
    /\ fetched = <<>>
    /\ skills = <<>>
    /\ gap_df = <<>>
    /\ news_items = <<>>
    /\ runs = 0

\* one more run of the script
Tick == runs < MaxRuns /\ runs' = runs + 1

Intake    == Tick /\ IntakeRun(SessionForms)
Dashboard == Tick /\ DashboardRun
Skills    == Tick /\ SkillsRun(SessionServices, CourseServices, SessionLevels)
Chat      == Tick /\ ChatRun(SessionInputs)
News      == Tick /\ NewsRun

Next == Intake \/ Dashboard \/ Skills \/ Chat \/ News

Spec == Init /\ [][Next]_vars

(***************************************************************************)
(* A session at the chat page: a profile has been saved, the user has      *)
(* chosen the chat page and has given a first directive; from there the    *)
(* user chats.                                                             *)
(***************************************************************************)
AnaProfile ==
    user_profile_form(EmptyDict, TRUE,
                      [name |-> "Ana", profession |-> "Student", experience |-> 0,
                       career_goal |-> "Lead a team", industries |-> <<>>])

\* a session in which the profile has been saved, the sidebar shown and
\* nothing else done, with the given page on the screen
Saved(profile, order, chosen) ==
    /\ user_profile = profile
    /\ personal_skills = <<>>
    /\ chat_history = <<>>
    /\ context = EmptyDict
    /\ widget_state = EmptyDict
    /\ hash_order = order
    /\ page = chosen
    /\ event = [kind |-> "page"]
    /\ raised = FALSE
    /\ mentor_requests = <<>>
    /\ caught = <<>>
    /\ fetched = <<>>
    /\ skills = <<>>
    /\ gap_df = <<>>
    /\ news_items = <<>>
    /\ runs = 0

FirstQuestion == <<"timeline:", " ", "x">>

InitChat ==
    LET first == show_mentor_chat(<<>>, EmptyDict, AnaProfile, FirstQuestion,
                                  CHOOSE c \in Completions : c.ok)
    IN  /\ user_profile = AnaProfile
        /\ personal_skills = <<>>
        /\ chat_history = first.chat_history
        /\ context = first.context
        /\ widget_state = EmptyDict
        /\ hash_order = skill_universe
        /\ page = "Mentorship Chatbot"
        /\ event = [kind |-> "ask", user_input |-> FirstQuestion]
        /\ raised = FALSE
        /\ mentor_requests = first.requests
        /\ caught = first.caught
        /\ fetched = <<>>
        /\ skills = <<>>
        /\ gap_df = <<>>
        /\ news_items = <<>>
        /\ runs = 0

ChatInputs == SeqsUpTo(Tokens, MaxInputLen) \ {<<>>}

Ask ==
    /\ runs < MaxQuestions
    /\ runs' = runs + 1
    /\ ChatRun(ChatInputs)

NextChat == Ask

SpecChat == InitChat /\ [][NextChat]_vars

(***************************************************************************)
(* A session at the skill-rating form and the dashboard.                   *)
(***************************************************************************)
MaxRenders == 3   \* runs of the script in a session of rating and reviewing

FormServices ==
    { [ok |-> FALSE, lines |-> << >>],
      [ok |-> TRUE,  lines |-> << <<>> >>],
      [ok |-> TRUE,  lines |-> << <<"-", " ", "Research">>, <<" ">>,
                                  <<"Prompt Engineering">> >>] }

FormLevels == {SliderMin, 2, SliderMax}

InitForm == Saved(AnaProfile, skill_universe, "Dashboard")

Render == runs < MaxRenders /\ runs' = runs + 1

Rate   == Render /\ SkillsRun(FormServices, CourseServices, FormLevels)
Review == Render /\ DashboardRun

NextForm == Rate \/ Review

SpecForm == InitForm /\ [][NextForm]_vars

(***************************************************************************)
(* skill_gap_analysis_df on any mapping: the session starts with any       *)
(* personal_skills, and the dashboard is run on it.                        *)
(***************************************************************************)
MaxGapRows == 2   \* keys of the mapping

GapSkills == {<<"Python">>, <<"SQL">>, <<"Statistics">>}

GapLevels == {SliderMin, 2, SliderMax}

GapItems ==
    [skill : GapSkills, levels : [current : GapLevels, target : GapLevels]]

GapInputs ==
    {items \in SeqsUpTo(GapItems, MaxGapRows) :
        \A m, n \in DOMAIN items : m # n => items[m].skill # items[n].skill}

InitGap ==
    /\ user_profile = AnaProfile
    /\ personal_skills \in GapInputs
    /\ chat_history = <<>>
    /\ context = EmptyDict
    /\ widget_state = EmptyDict
    /\ hash_order = skill_universe
    /\ page = "Skills & Courses"
    /\ event = [kind |-> "page"]
    /\ raised = FALSE
    /\ mentor_requests = <<>>
    /\ caught = <<>>
    /\ fetched = <<>>
    /\ skills = <<>>
    /\ gap_df = <<>>
    /\ news_items = <<>>
    /\ runs = 0

Compute == DashboardRun /\ UNCHANGED runs

NextGap == Compute

SpecGap == InitGap /\ [][NextGap]_vars

(***************************************************************************)
(* get_skills_for_user on any profile.                                     *)
(***************************************************************************)
MaxInterests == 2   \* industries in a profile

Professions == Range(profession_keys) \cup {"Astronaut"}

Industries == Range(industry_keys) \cup {"Space"}

InterestLists ==
    {l \in SeqsUpTo(Industries, MaxInterests) :
        \A m, n \in DOMAIN l : m # n => l[m] # l[n]}

SkillProfiles ==
    {EmptyDict} \cup
    [name : {"Ana"}, profession : Professions, experience_years : {0},
     career_goals : {"Lead a team"}, career_interests : InterestLists]

InitSkills ==
    /\ user_profile \in SkillProfiles
    /\ personal_skills = <<>>
    /\ chat_history = <<>>
    /\ context = EmptyDict
    /\ widget_state = EmptyDict
    /\ hash_order \in HashOrders
    /\ page = "Dashboard"
    /\ event = [kind |-> "page"]
    /\ raised = FALSE
    /\ mentor_requests = <<>>
    /\ caught = <<>>
    /\ fetched = <<>>
    /\ skills = <<>>
    /\ gap_df = <<>>
    /\ news_items = <<>>
    /\ runs = 0

\* one call of get_skills_for_user (lines 91-97) on the profile
GetSkills ==
    /\ \E c \in SkillCompletions :
          LET ai == fetch_dynamic_skills(c)
          IN  /\ fetched' = <<ai>>
              /\ raised' = ai.raised
              /\ skills' = IF ai.raised THEN <<>>
                           ELSE get_skills_for_user(user_profile, ai.list,
                                                    hash_order)
    /\ UNCHANGED <<user_profile, personal_skills, chat_history, context,
                   widget_state, hash_order, page, event, mentor_requests,
                   caught, gap_df, news_items, runs>>

NextSkills == GetSkills

SpecSkills == InitSkills /\ [][NextSkills]_vars

(***************************************************************************)
(* Properties.                                                             *)
(***************************************************************************)
ProfileSaved == DOMAIN user_profile # {}

\* the directive literal occurs in the input, in any letter case
Occurs(literal, input) == \E n \in DOMAIN input : lower(input[n]) = literal

LastTurn(history) == history[Len(history)]

\* the keys of ctx2 that ctx1 lacks or maps to another value
Written(ctx1, ctx2) ==
    {k \in DOMAIN ctx2 : k \notin DOMAIN ctx1 \/ ctx2[k] # ctx1[k]}

\* C1: every submitted chat question appends exactly two turns to
\* chat_history, the user's turn holding the input and then an assistant turn,
\* whatever the input (directive, question answered, question on which the
\* completion service raised); after a service error the assistant turn
\* contains the error detail and the run ends normally.  No other run changes
\* chat_history.
C1_QuestionAppendsTwoTurns ==
    [][ /\ event'.kind = "ask" =>
             LET n == Len(chat_history)
             IN  /\ Len(chat_history') = n + 2
                 /\ SubSeq(chat_history', 1, n) = chat_history
                 /\ chat_history'[n + 1] =
                        [role |-> "user", content |-> event'.user_input]
                 /\ chat_history'[n + 2].role = "assistant"
                 /\ caught' # <<>> =>
                        Contains(chat_history'[n + 2].content, caught')
                 /\ raised' = FALSE
        /\ event'.kind # "ask" => chat_history' = chat_history ]_vars

\* a question on which the service raised has been answered in a chat that
\* already held an exchange
C1_Witness ==
    /\ event.kind = "ask"
    /\ caught # <<>>
    /\ Len(chat_history) = 4
    /\ Contains(LastTurn(chat_history).content, caught)

\* C2: parse_special_commands leaves the context as it was when a directive
\* matches with an empty or whitespace-only value (it answers "value
\* missing") and when no directive occurs (it returns None, so the question
\* is forwarded); otherwise it writes the trimmed captured value under the
\* key of the directive matched, and nothing else.
C2_ParserWritesOnlyTrimmedValue ==
    [][ event'.kind = "ask" =>
          LET input == event'.user_input
              hits  == {n \in DOMAIN command_patterns :
                           Occurs(command_patterns[n].literal, input)}
          IN  IF hits = {}
              THEN /\ context' = context
                   /\ Len(mentor_requests') = 1
              ELSE LET pat   == command_patterns[CHOOSE n \in hits :
                                                    \A m \in hits : n <= m]
                       first == CHOOSE n \in DOMAIN input :
                                   /\ lower(input[n]) = pat.literal
                                   /\ \A m \in 1..(n - 1) :
                                         lower(input[m]) # pat.literal
                       value == strip(group1(input, first))
                   IN  IF value = <<>>
                       THEN /\ context' = context
                            /\ LastTurn(chat_history').content = value_missing(pat)
                       ELSE /\ context' = DictSet(context, pat.key, value)
                            /\ ~IsSpace(value[1])
                            /\ ~IsSpace(value[Len(value)])
                            /\ "\n" \notin Range(value)
                            /\ Contains(SubSeq(input, first + 1, Len(input)),
                                        value) ]_vars

\* a prep level given with a blank after it has been written, trimmed, next
\* to the timeline the context held
C2_Witness ==
    /\ event.kind = "ask"
    /\ event.user_input = <<"Prep Level:", "x", " ">>
    /\ context = [timeline |-> <<"x">>, prep_level |-> <<"x">>]
    /\ LastTurn(chat_history).content = recorded(command_patterns[2], <<"x">>)
    /\ Len(chat_history) = 4

\* C9: one call of parse_special_commands writes at most one key of the
\* context and removes none; an input in which "timeline:" occurs never
\* writes prep_level, even when the timeline value is missing; an input in
\* which a directive occurs is not sent to the completion service, and one
\* with no directive is sent to it exactly once.
C9_FirstDirectiveOnly ==
    [][ event'.kind = "ask" =>
          LET input  == event'.user_input
              either == \/ Occurs("timeline:", input)
                        \/ Occurs("prep level:", input)
          IN  /\ Cardinality(Written(context, context')) <= 1
              /\ DOMAIN context \subseteq DOMAIN context'
              /\ Occurs("timeline:", input) =>
                    "prep_level" \notin Written(context, context')
              /\ either => mentor_requests' = <<>>
              /\ ~either => /\ Len(mentor_requests') = 1
                            /\ mentor_requests'[1].question = input ]_vars

\* an input with a prep-level directive and its value, and then a timeline
\* directive without one, has been answered "value missing" and has written
\* nothing
C9_Witness ==
    /\ event.kind = "ask"
    /\ event.user_input = <<"Prep Level:", "x", "timeline:">>
    /\ "prep_level" \notin DOMAIN context
    /\ LastTurn(chat_history).content = value_missing(command_patterns[1])
    /\ mentor_requests = <<>>

\* C10: the keys of the context are always among timeline and prep_level,
\* and the context changes only in a run of the chat page in which a
\* question was submitted whose directive matched with a value: the answer
\* is the confirmation of the value written and the completion service was
\* not called.
C10_ContextWrittenByDirectivesOnly ==
    [][ /\ DOMAIN context' \subseteq {"timeline", "prep_level"}
        /\ context' # context =>
              /\ page' = "Mentorship Chatbot"
              /\ event'.kind = "ask"
              /\ mentor_requests' = <<>>
              /\ \E n \in DOMAIN command_patterns :
                    LET pat == command_patterns[n]
                    IN  /\ Written(context, context') = {pat.key}
                        /\ context'[pat.key] # <<>>
                        /\ LastTurn(chat_history').content =
                               recorded(pat, context'[pat.key]) ]_vars

\* a question on which the completion service raised has left the context
\* an earlier directive wrote
C10_Witness ==
    /\ DOMAIN context = {"timeline"}
    /\ event.kind = "ask"
    /\ caught # <<>>

\* C3: in a run that finds the stored profile empty only the intake form is
\* shown, no page handler is executed and no other field of the session
\* changes; "Save Profile" with an empty name or an empty career goal leaves
\* the profile empty, and the profile is only ever set by a submission with
\* both fields filled.
C3_GateClosedUntilValidSave ==
    [][ ~ProfileSaved =>
          /\ page' = "intake"
          /\ UNCHANGED <<personal_skills, chat_history, context, widget_state>>
          /\ mentor_requests' = <<>> /\ fetched' = <<>> /\ news_items' = <<>>
          /\ (event'.kind = "save"
                /\ (event'.form.name = "" \/ event'.form.career_goal = ""))
             => user_profile' = user_profile
          /\ user_profile' # user_profile =>
                /\ event'.kind = "save"
                /\ event'.form.name # ""
                /\ event'.form.career_goal # ""
                /\ user_profile'.name = event'.form.name
                /\ user_profile'.career_goals = event'.form.career_goal ]_vars

\* a submission with a name and no career goal has been refused
C3_Witness ==
    /\ ~ProfileSaved
    /\ event.kind = "save"
    /\ event.form.name # ""
    /\ event.form.career_goal = ""
    /\ page = "intake"

\* C8: once the profile is saved no run changes it, and no run shows the
\* intake form again.
C8_ProfileSetOnce ==
    [][ ProfileSaved => /\ user_profile' = user_profile
                        /\ page' # "intake" ]_vars

\* the profile saved, the user has rated skills and chatted
C8_Witness ==
    /\ ProfileSaved
    /\ personal_skills # <<>>
    /\ chat_history # <<>>

\* C4: every entry of personal_skills has 0 <= current <= target <= 5.
C4_LevelsOrdered ==
    \A n \in DOMAIN personal_skills :
        LET levels == personal_skills[n].levels
        IN  /\ SliderMin <= levels.current
            /\ levels.current <= levels.target
            /\ levels.target <= SliderMax

\* C5: a run of the dashboard changes no field of the session, and the table
\* it shows for a non-empty personal_skills has one row per key, in the
\* mapping's order, holding the key's current and target and, as gap, target
\* minus current, negative when target < current.
C5_GapTableRows ==
    [][ page' = "Dashboard" =>
          /\ UNCHANGED <<user_profile, personal_skills, chat_history, context>>
          /\ personal_skills # <<>> =>
                /\ Len(gap_df') = Len(personal_skills)
                /\ \A n \in DOMAIN personal_skills :
                      LET item == personal_skills[n]
                      IN  /\ gap_df'[n].Skill = item.skill
                          /\ gap_df'[n].Current = item.levels.current
                          /\ gap_df'[n].Target = item.levels.target
                          /\ gap_df'[n].Gap + item.levels.current
                                 = item.levels.target ]_vars

\* a table of two rows has been shown, the second with a negative gap
C5_Witness ==
    /\ page = "Dashboard"
    /\ Len(gap_df) = 2
    /\ gap_df[1].Gap > 0
    /\ gap_df[2].Gap < 0
    /\ gap_df[2].Skill = <<"Python">>

\* the skills of the two tables for a profile
StaticSkills(profile) ==
    LET profession == DictGet(profile, "profession", "")
        interests  == Range(DictGet(profile, "career_interests", <<>>))
    IN  (IF profession \in DOMAIN skills_by_profession
         THEN Range(skills_by_profession[profession]) ELSE {})
        \cup UNION {Range(skills_by_industry[i]) :
                       i \in interests \cap DOMAIN skills_by_industry}

Orderings(l) ==
    {[n \in DOMAIN l |-> l[f[n]]] :
        f \in {g \in [DOMAIN l -> DOMAIN l] :
                  \A m, n \in DOMAIN l : m # n => g[m] # g[n]}}

\* C6: the list get_skills_for_user returns holds no skill twice, and its
\* elements are exactly those of table[profession] (none for a profession the
\* table lacks), of table[i] for every industry i of the profile and of the
\* AI-suggested list; the static part is the same for every order of the
\* industries.
C6_SkillsAreTheUnion ==
    (fetched # <<>> /\ ~fetched[1].raised) =>
        /\ \A m, n \in DOMAIN skills : m # n => skills[m] # skills[n]
        /\ Range(skills) = StaticSkills(user_profile) \cup Range(fetched[1].list)
        /\ \A l \in Orderings(DictGet(user_profile, "career_interests", <<>>)) :
              Range(get_skills_for_user(
                        [k \in DOMAIN user_profile |->
                            IF k = "career_interests" THEN l ELSE user_profile[k]],
                        <<>>, hash_order))
                  = StaticSkills(user_profile)

\* a Data Analyst with IT among two industries, to whom Python was suggested
\* too, has been given Python once
C6_Witness ==
    /\ fetched # <<>>
    /\ ~fetched[1].raised
    /\ ProfileSaved
    /\ user_profile.profession = "Data Analyst"
    /\ Len(user_profile.career_interests) = 2
    /\ "IT" \in Range(user_profile.career_interests)
    /\ <<"Python">> \in Range(fetched[1].list)
    /\ Cardinality({n \in DOMAIN skills : skills[n] = <<"Python">>}) = 1

\* the table is the one of these items
TableFor(table, items) ==
    /\ Len(table) = Len(items)
    /\ \A n \in DOMAIN items :
          /\ table[n].Skill = items[n].skill
          /\ table[n].Current = items[n].levels.current
          /\ table[n].Target = items[n].levels.target

\* C7: a run of the skill-rating form in which no slider was moved, showing
\* sliders of skills already rated, leaves personal_skills as it was; and a
\* run of the dashboard on the personal_skills its latest table was made
\* from shows the same table again.
C7_RerenderIsIdempotent ==
    [][ /\ ( /\ page' = "Skills & Courses"
             /\ event'.kind = "page"
             /\ Range(skills') \subseteq
                    {personal_skills[n].skill : n \in DOMAIN personal_skills} )
           => personal_skills' = personal_skills
        /\ ( /\ page' = "Dashboard"
             /\ personal_skills # <<>>
             /\ TableFor(gap_df, personal_skills) )
           => gap_df' = gap_df ]_vars

\* the form has been run again, no slider moved, on items a slider move had
\* set
C7_Witness ==
    /\ page = "Skills & Courses"
    /\ event.kind = "page"
    /\ ~raised
    /\ Len(skills) = Len(personal_skills)
    /\ \E n \in DOMAIN personal_skills : personal_skills[n].levels.current > 0

====
